---- MODULE Spec2Model ----
(***************************************************************************)
(* Execution & Recovery Engine of the government-service automation        *)
(* backend: NovaActAgent (plan execution, step retry, error detection),    *)
(* AutomationAgent.process_nova_act_result (result classifier) and         *)
(* CoordinatorAgent._intelligent_process_request (one re-plan cycle).      *)
(***************************************************************************)
EXTENDS Integers, Sequences, FiniteSets, TLC

(***************************************************************************)
(* Bounds of the model.                                                    *)
(***************************************************************************)
MaxSteps == 2
MaxRetry == 2
LongSteps == 4
MaxSessions == 2
MaxClock == 5
TicksPerSecond == 2

(***************************************************************************)
(* Program constants.                                                      *)
(***************************************************************************)
\* _retry_with_backoff(..., max_retries=2, ...)
max_retries == 2

VARIABLES
    \* ---- coordinator (_intelligent_process_request / process_user_request)
    caller,          \* "coordinator" or "direct" (a script calling the engine)
    cpc,             \* "prepare", "execute", "process", "done"
    run,             \* 1 = original plan, 2 = improved plan
    wattempt,        \* attempt index of _retry_with_backoff
    execCount,       \* calls of execute_execution_plan in this request
    regenCount,      \* plan regenerations requested by the classifier
    actions,         \* actions returned by process_nova_act_result, in order
    response,        \* what the request returns to the user
    automation_task, \* the task passed to process_nova_act_result
    genRequest,      \* the task last passed to the plan generator for a new plan
    origCredentials, \* the original plan carried the extracted credentials
    \* ---- execute_execution_plan / _execute_nova_act_sync
    ctx,             \* "async" (event loop, worker thread) or "sync"
    planLen,         \* len(micro_steps)
    credentials,     \* TRUE iff the plan carries a non-empty credentials dict
    pc,              \* position of the worker
    browser,         \* browser_session: "unopened", "open", "closed"
    nova,            \* NovaAct session: "unopened", "open", "closed"
    openCount,       \* how many times the actuator session was started
    overran,         \* the 300 s of future.result elapsed before the worker ended
    workerResult,    \* what _execute_nova_act_sync returned
    callerResult,    \* what execute_execution_plan returned
    returnCount,     \* returns of execute_execution_plan in this execution
    \* ---- _execute_steps_with_error_detection
    stepIdx,         \* number of steps of the plan taken from micro_steps
    cur,             \* the step being executed
    completed_steps,
    success_count,
    failed_count,
    summary,         \* the NovaActExecutionSummary the loop returned
    \* ---- _execute_step_with_retry
    attempt,         \* loop variable of range(retry_count + 1)
    \* ---- history (observations, never read by the program)
    attemptLog,      \* classification of each attempt of the current step
    escaped,         \* an exception left _execute_step_with_retry
    lastRaised,      \* the latest attempt of the current step ended by an exception
    actCalls,        \* act(instruction) calls made for the current step
    firstFail,       \* some step's first attempt was not classified successful
    detectRuns,      \* runs of _detect_errors_with_bool_schema
    halted,          \* step at which a stuck-in-loop report halted the run
    summaries,       \* summaries built by the step loop in this execution
    sent,            \* indices of the steps sent to the actuator
    stepMode,        \* how the attempts of the current step ended so far
    lastInstr,       \* the instruction text of the latest act(instruction) call
    \* ---- process_nova_act_result as a function of its input
    clsIn,
    clsOut,
    clsReq,          \* the task it passed to the plan generator, if any
    clsTask,         \* its original_task argument after the call
    \* ---- session identifiers of plan executions
    clock,           \* the wall clock, in ticks
    sessions,        \* per execution: its state and its session id
    \* ---- generate_execution_plan after the generator's reply was parsed
    gpc,             \* position: idle, parsed, filtered, planned
    genIn,           \* micro_steps of the parsed reply
    genData,         \* micro_steps after _validate_and_filter_payment_steps
    genPlan          \* micro_steps of the AutomationExecutionPlan

coordVars == <<caller, cpc, run, wattempt, execCount, regenCount, actions, response,
              automation_task, genRequest, origCredentials>>
execVars == <<ctx, planLen, credentials, pc, browser, nova, openCount, overran,
              workerResult, callerResult, returnCount>>
loopVars == <<stepIdx, cur, completed_steps, success_count, failed_count, summary,
              attempt>>
histVars == <<attemptLog, escaped, lastRaised, actCalls, firstFail, detectRuns, halted,
              summaries, sent, stepMode, lastInstr>>
clsVars == <<clsIn, clsOut, clsReq, clsTask>>
sessVars == <<clock, sessions>>
genVars == <<gpc, genIn, genData, genPlan>>
execVars_but_pc == <<ctx, planLen, credentials, browser, nova, openCount, overran,
                     workerResult, callerResult, returnCount>>
vars == <<coordVars, execVars, loopVars, histVars, clsVars, sessVars, genVars>>

(***************************************************************************)
(* Values.                                                                 *)
(***************************************************************************)
Words == {"success", "error", "failed", "cannot", "entered"}

\* What nova_act.act returns: resp = result.response is truthy, words = the
\* keyword classes found in the result text ("success" stands for
\* success/completed/done/finished, "cannot" for cannot/unable, "entered" for
\* entered/filled).
Texts == {[raised |-> FALSE, resp |-> r, words |-> w] :
            r \in BOOLEAN, w \in {{}, {"success"}, {"error"}, {"failed"}, {"cannot"},
                                 {"entered"}, {"success", "error"}}}

Raise == [raised |-> TRUE, resp |-> FALSE, words |-> {}]

ActOutcomes == Texts \cup {Raise}

NovaActTypes == {"navigate", "click", "input", "general"}

Instructions == {"text", "null"}

NoStep == [nova_act_type |-> "none", retry_count |-> 0, instr |-> "text",
           credMatch |-> FALSE]

\* The micro-steps of the plans: the steps with an instruction text, of every
\* action type and retry budget (credMatch: the instruction of an input step
\* names a credential the plan carries), and a step whose instruction is null.
Steps == [nova_act_type : NovaActTypes, retry_count : 0..MaxRetry,
          instr : {"text"}, credMatch : BOOLEAN]
         \cup [nova_act_type : {"general"}, retry_count : {0},
               instr : {"null"}, credMatch : {FALSE}]

NoDetection == [present |-> FALSE, has_difficulties |-> FALSE,
                is_stuck_in_loop |-> FALSE, can_proceed |-> TRUE,
                error_type |-> "None", suggestions |-> {}]

NoResult == [status |-> "none", requires_human |-> FALSE,
             error_detection |-> NoDetection, suggestions |-> {},
             completed_steps |-> <<>>, success_count |-> 0, failed_count |-> 0]

NoResponse == [status |-> "none", requires_human |-> FALSE, tutorial |-> FALSE,
               improvement_applied |-> FALSE]

\* The text of an instruction sent to the actuator: the step's instruction
\* and what was appended to it.
NoInstruction == [base |-> "none", suffix |-> "none"]

\* nova_act.act(instruction): every attempt of the loop, the first and the
\* retries alike, sends the step's instruction as it stands in the plan.
InstructionSent(step, att) == [base |-> step.instr, suffix |-> "none"]

(***************************************************************************)
(* NovaActAgent: pure parts.                                               *)
(***************************************************************************)
\* _is_step_successful: the response keywords first, then the rule of the
\* action type on the result text.
IsStepSuccessful(result, nova_act_type) ==
    IF result.resp /\ "success" \in result.words THEN TRUE
    ELSE IF result.resp /\ result.words \cap {"error", "failed", "cannot"} # {} THEN FALSE
    ELSE IF nova_act_type = "navigate" THEN TRUE
    ELSE IF nova_act_type = "click" THEN "error" \notin result.words
    ELSE IF nova_act_type = "input" THEN "entered" \in result.words
    ELSE "error" \notin result.words /\ "failed" \notin result.words

\* The object _execute_input_step_with_credentials builds after typing the
\* credential: response "Successfully entered N characters securely".
TypedResult == [raised |-> FALSE, resp |-> TRUE, words |-> {"success", "entered"}]

\* _execute_input_step_with_credentials: o1 is the outcome of the first
\* act(instruction), typed tells whether keyboard.type returned, o2 is the
\* outcome of the fallback act(instruction) of the except branch.
ExecuteInputStepWithCredentials(step, o1, o2, typed) ==
    IF o1.raised THEN [r |-> o2, calls |-> 2]
    ELSE IF step.credMatch
         THEN IF typed THEN [r |-> TypedResult, calls |-> 1]
              ELSE [r |-> o2, calls |-> 2]
         ELSE [r |-> o1, calls |-> 1]

\* The call made by one attempt of _execute_step_with_retry.
StepCall(step, creds, o1, o2, typed) ==
    IF step.nova_act_type = "input" /\ creds
    THEN ExecuteInputStepWithCredentials(step, o1, o2, typed)
    ELSE [r |-> o1, calls |-> 1]

\* As HasRetriesLeft, with the budget counting the first attempt too.
HasRetriesLeftInclusive(att, retry_count) == att + 1 < retry_count

\* `if attempt < retry_count` of _execute_step_with_retry.
HasRetriesLeft(att, retry_count) == att < retry_count

\* As RecordedRetryCount, recording the number of attempts made.
RecordedRetryCountPlusOne(att) == att + 1

\* retry_count=attempt of the NovaActExecutionResult of a step.
RecordedRetryCount(att) == att

\* As AttemptOutcome, without the except branch on the final attempt.
AttemptOutcomeUncaught(ok, raised, att, retry_count) ==
    IF ~raised /\ ok THEN "success"
    ELSE IF att < retry_count THEN "retry"
    ELSE IF raised THEN "raise"
    ELSE "failed"

\* What one iteration of the attempt loop does with the call's result:
\* return success, continue, or return failed.  Both the textual failure and
\* the raised exception are handled inside the loop.
AttemptOutcome(ok, raised, att, retry_count) ==
    IF ~raised /\ ok THEN "success"
    ELSE IF HasRetriesLeft(att, retry_count) THEN "retry"
    ELSE "failed"

\* _detect_errors_with_bool_schema, given the three BOOL_SCHEMA answers.
DetectErrorsWithBoolSchema(hd, loop, cp) ==
    [present |-> TRUE,
     has_difficulties |-> hd,
     is_stuck_in_loop |-> loop,
     can_proceed |-> cp,
     error_type |-> IF ~cp THEN "cannot_proceed"
                    ELSE IF loop THEN "infinite_loop"
                    ELSE IF hd THEN "general_difficulties"
                    ELSE "None",
     suggestions |-> (IF hd THEN {"difficulties"} ELSE {})
                     \cup (IF loop THEN {"loop"} ELSE {})
                     \cup (IF ~cp THEN {"cannot_proceed"} ELSE {})]

\* As StopsOnDetection, looking at has_difficulties only.
StopsOnDetectionDifficultiesOnly(d) == d.has_difficulties

\* `if error_detection.has_difficulties or error_detection.is_stuck_in_loop`
StopsOnDetection(d) == d.has_difficulties \/ d.is_stuck_in_loop

\* `if error_detection.is_stuck_in_loop: break` of the except branch.
BreaksOnLoop(d) == d.is_stuck_in_loop

\* As DetectionSummary, built before the failed step's outcome was appended.
DetectionSummaryBeforeFailure(d, done, sc, fc) ==
    [status |-> "failed", requires_human |-> TRUE, error_detection |-> d,
     suggestions |-> d.suggestions,
     completed_steps |-> SubSeq(done, 1, Len(done) - 1),
     success_count |-> sc, failed_count |-> fc]

\* The summary returned from inside the loop on error detection.
DetectionSummary(d, done, sc, fc) ==
    [status |-> "failed", requires_human |-> TRUE, error_detection |-> d,
     suggestions |-> d.suggestions, completed_steps |-> done,
     success_count |-> sc, failed_count |-> fc]

\* As FinalSummaryOf, testing success_count before failed_count.
FinalSummaryOfSwapped(done, sc, fc) ==
    [status |-> IF sc > 0 THEN "partial" ELSE IF fc = 0 THEN "success" ELSE "failed",
     requires_human |-> sc > 0 \/ fc # 0,
     error_detection |-> NoDetection,
     suggestions |-> {},
     completed_steps |-> done, success_count |-> sc, failed_count |-> fc]

\* "Determine final status" and the summary after the loop.
FinalSummaryOf(done, sc, fc) ==
    [status |-> IF fc = 0 THEN "success" ELSE IF sc > 0 THEN "partial" ELSE "failed",
     requires_human |-> fc # 0,
     error_detection |-> NoDetection,
     suggestions |-> {},
     completed_steps |-> done, success_count |-> sc, failed_count |-> fc]

\* The dictionaries built by the except branches and by the timeout branch.
FixedResult(status, tag) ==
    [status |-> status, requires_human |-> TRUE, error_detection |-> NoDetection,
     suggestions |-> {tag}, completed_steps |-> <<>>, success_count |-> 0,
     failed_count |-> 1]

InterruptedResult == FixedResult("interrupted", "interrupted")
ErrorResult == FixedResult("error", "connection")
TimeoutResult == FixedResult("error", "timeout")

\* As OnExit, without the context manager: nothing is closed.
OnExitLeaves(s) == s

\* Leaving a `with` block: the session is closed if it was opened.
OnExit(s) == IF s = "open" THEN "closed" ELSE s

\* What execute_execution_plan returns once the worker has ended: in the
\* event-loop branch future.result(timeout=300) raised TimeoutError when the
\* 300 s elapsed first; the direct branch returns the worker's result.
ExecuteExecutionPlanResult(c, over, wres) ==
    IF c = "async" /\ over THEN TimeoutResult ELSE wres

(***************************************************************************)
(* execute_execution_plan and _execute_nova_act_sync.                      *)
(***************************************************************************)
\* A call of execute_execution_plan with a plan of n micro-steps: the worker
\* (the thread of the event-loop branch, or the caller itself) starts
\* _execute_nova_act_sync.
EngineStart(n, creds, c) ==
    /\ ctx' = c
    /\ planLen' = n
    /\ credentials' = creds
    /\ pc' = "open_browser"
    /\ browser' = "unopened"
    /\ nova' = "unopened"
    /\ openCount' = 0
    /\ overran' = FALSE
    /\ workerResult' = NoResult
    /\ callerResult' = NoResult
    /\ returnCount' = 0
    /\ stepIdx' = 0
    /\ cur' = NoStep
    /\ completed_steps' = <<>>
    /\ success_count' = 0
    /\ failed_count' = 0
    /\ summary' = NoResult
    /\ attempt' = 0
    /\ attemptLog' = <<>>
    /\ escaped' = FALSE
    /\ lastRaised' = FALSE
    /\ actCalls' = 0
    /\ firstFail' = FALSE
    /\ detectRuns' = 0
    /\ halted' = 0
    /\ summaries' = 0
    /\ sent' = {}
    /\ stepMode' = "none"
    /\ lastInstr' = NoInstruction

\* `with browser_session(...) as client:` and client.generate_ws_headers().
BrowserOpen ==
    /\ pc = "open_browser"
    /\ \E o \in {"ok", "open_fails", "headers_fail"} :
        IF o = "ok"
        THEN /\ browser' = "open"
             /\ pc' = "open_nova"
             /\ UNCHANGED workerResult
        ELSE /\ browser' = IF o = "headers_fail" THEN OnExit("open") ELSE browser
             /\ workerResult' = ErrorResult
             /\ pc' = "finished"
    /\ UNCHANGED <<coordVars, ctx, planLen, credentials, nova, openCount, overran,
                   callerResult, returnCount, loopVars, histVars, clsVars, sessVars, genVars>>

\* `with NovaAct(...) as nova_act:` starts the actuator on the starting page.
NovaStart ==
    /\ pc = "open_nova"
    /\ \E ok \in BOOLEAN :
        IF ok
        THEN /\ nova' = "open"
             /\ openCount' = openCount + 1
             /\ pc' = "loop"
             /\ UNCHANGED <<browser, workerResult>>
        ELSE /\ browser' = OnExit(browser)
             /\ workerResult' = ErrorResult
             /\ pc' = "finished"
             /\ UNCHANGED <<nova, openCount>>
    /\ UNCHANGED <<coordVars, ctx, planLen, credentials, overran, callerResult,
                   returnCount, loopVars, histVars, clsVars, sessVars, genVars>>

\* Leaving both `with` blocks with the summary of the step loop.
CloseSession ==
    /\ pc = "closing"
    /\ nova' = OnExit(nova)
    /\ browser' = OnExit(browser)
    /\ workerResult' = summary
    /\ pc' = "finished"
    /\ UNCHANGED <<coordVars, ctx, planLen, credentials, openCount, overran,
                   callerResult, returnCount, loopVars, histVars, clsVars, sessVars, genVars>>

\* KeyboardInterrupt, delivered to the main thread: it reaches the worker only
\* when the plan runs in the caller's own (synchronous) context.
Interrupt ==
    /\ ctx = "sync"
    /\ pc \in {"open_browser", "open_nova", "loop", "attempt", "detect",
               "exc_detect", "closing"}
    /\ nova' = OnExit(nova)
    /\ browser' = OnExit(browser)
    /\ workerResult' = InterruptedResult
    /\ pc' = "finished"
    /\ cur' = NoStep
    /\ attempt' = 0
    /\ attemptLog' = <<>>
    /\ actCalls' = 0
    /\ lastRaised' = FALSE
    /\ stepMode' = "none"
    /\ lastInstr' = NoInstruction
    /\ UNCHANGED <<coordVars, ctx, planLen, credentials, openCount, overran,
                   callerResult, returnCount, stepIdx, completed_steps,
                   success_count, failed_count, summary, escaped, firstFail,
                   detectRuns, halted, summaries, sent, clsVars, sessVars, genVars>>

\* The wall clock passes 300 s after the start while the worker is running.
ClockExceedsTimeout ==
    /\ pc \notin {"idle", "finished"}
    /\ ~overran
    /\ overran' = TRUE
    /\ UNCHANGED <<coordVars, ctx, planLen, credentials, pc, browser, nova,
                   openCount, workerResult, callerResult, returnCount, loopVars,
                   histVars, clsVars, sessVars, genVars>>

\* As WorkerJoined, with the timeout branch returning without the join.
WorkerJoinedUnlessTimeout(c, over, p) == p = "finished" \/ (c = "async" /\ over)

\* When execute_execution_plan can return: the direct branch returns from
\* _execute_nova_act_sync itself; the event-loop branch returns from inside
\* `with ThreadPoolExecutor(max_workers=1) as executor:`, whose exit waits for
\* the submitted worker, on the timeout path too.
WorkerJoined(c, over, p) == p = "finished"

\* execute_execution_plan returns.  In the event-loop branch the return leaves
\* `with ThreadPoolExecutor(...)`, whose exit joins the worker thread, so in
\* both branches the worker has ended.
Return ==
    /\ cpc = "execute"
    /\ WorkerJoined(ctx, overran, pc)
    /\ returnCount = 0
    /\ callerResult' = ExecuteExecutionPlanResult(ctx, overran, workerResult)
    /\ returnCount' = 1
    /\ cpc' = IF caller = "coordinator" THEN "process" ELSE "done"
    /\ UNCHANGED <<caller, run, wattempt, execCount, regenCount, actions, response,
                   automation_task, genRequest, origCredentials, ctx, planLen, credentials, pc, browser, nova, openCount, overran,
                   workerResult, loopVars, histVars, clsVars, sessVars, genVars>>

(***************************************************************************)
(* _execute_steps_with_error_detection and _execute_step_with_retry.       *)
(***************************************************************************)
StepResult(i, status, rc) == [step |-> i, status |-> status, retry_count |-> rc]

\* The body of `except Exception as e:` of the step loop, up to the error
\* detection: a failed result with retry_count 0 is recorded.
RecordLoopException(i) ==
    /\ completed_steps' = Append(completed_steps, StepResult(i, "failed", 0))
    /\ failed_count' = failed_count + 1
    /\ pc' = "exc_detect"

\* `for step in micro_steps:` takes the next step and reads its fields.  A
\* step whose instruction is null raises at instruction[:50], before the
\* step runner is called.
NextStepFrom(S) ==
    /\ pc = "loop"
    /\ stepIdx < planLen
    /\ \E s \in S :
        /\ s.credMatch => (credentials /\ s.nova_act_type = "input" /\ s.instr = "text")
        /\ cur' = s
        /\ stepIdx' = stepIdx + 1
        /\ attempt' = 0
        /\ attemptLog' = <<>>
        /\ actCalls' = 0
        /\ lastRaised' = FALSE
        /\ stepMode' = "none"
        /\ lastInstr' = NoInstruction
        /\ IF s.instr = "null"
           THEN /\ RecordLoopException(stepIdx + 1)
                /\ firstFail' = TRUE
           ELSE /\ pc' = "attempt"
                /\ UNCHANGED <<completed_steps, failed_count, firstFail>>
    /\ UNCHANGED <<coordVars, execVars_but_pc, success_count, summary, escaped, detectRuns,
                   halted, summaries, sent, clsVars, sessVars, genVars>>

\* The plans of a request hold any of the micro-steps.
NextStep == NextStepFrom(Steps)

\* The results one attempt of the step can get from the actuator, each with
\* the number of act(instruction) calls it took.
AttemptCalls(step, creds) ==
    IF step.nova_act_type = "input" /\ creds
    THEN {StepCall(step, creds, o1, o2, typed) :
            o1 \in ActOutcomes, o2 \in ActOutcomes, typed \in BOOLEAN}
    ELSE {StepCall(step, creds, o1, Raise, TRUE) : o1 \in ActOutcomes}

\* An attempt as the retry loop sees it: raised, or classified ok or not.
Seen(call, nova_act_type) ==
    [raised |-> call.r.raised,
     ok |-> ~call.r.raised /\ IsStepSuccessful(call.r, nova_act_type),
     calls |-> call.calls]

\* How an attempt ended: every act call of it raised ("raise"), none raised
\* ("text"), or an exception was followed by a call that returned ("mixed").
AttemptMode(a) ==
    IF a.raised THEN "raise" ELSE IF a.calls = 1 THEN "text" ELSE "mixed"

\* The attempts of a step so far: all of one mode, or "mixed".
NextStepMode(mode, att, m) ==
    IF att = 0 THEN m ELSE IF mode = m THEN m ELSE "mixed"

\* One iteration of `for attempt in range(retry_count + 1):`, the call of the
\* actuator included.
Attempt ==
    /\ pc = "attempt"
    /\ \E a \in {Seen(c, cur.nova_act_type) : c \in AttemptCalls(cur, credentials)} :
        LET out == AttemptOutcome(a.ok, a.raised, attempt, cur.retry_count)
        IN  /\ sent' = sent \cup {stepIdx}
            /\ actCalls' = actCalls + a.calls
            /\ attemptLog' = Append(attemptLog, a.ok)
            /\ lastRaised' = a.raised
            /\ stepMode' = NextStepMode(stepMode, attempt, AttemptMode(a))
            /\ lastInstr' = InstructionSent(cur, attempt)
            /\ firstFail' = (firstFail \/ (attempt = 0 /\ ~a.ok))
            /\ CASE out = "success" ->
                      /\ completed_steps' = Append(completed_steps,
                            StepResult(stepIdx, "success", RecordedRetryCount(attempt)))
                      /\ success_count' = success_count + 1
                      /\ pc' = "loop"
                      /\ UNCHANGED <<failed_count, attempt, escaped>>
                 [] out = "retry" ->
                      /\ attempt' = attempt + 1
                      /\ UNCHANGED <<completed_steps, success_count, failed_count,
                                     pc, escaped>>
                 [] out = "failed" ->
                      /\ completed_steps' = Append(completed_steps,
                            StepResult(stepIdx, "failed", RecordedRetryCount(attempt)))
                      /\ failed_count' = failed_count + 1
                      /\ pc' = "detect"
                      /\ UNCHANGED <<success_count, attempt, escaped>>
                 [] OTHER ->
                      \* an exception leaves the step runner: the loop's except
                      /\ RecordLoopException(stepIdx)
                      /\ escaped' = TRUE
                      /\ UNCHANGED <<success_count, attempt>>
    /\ UNCHANGED <<coordVars, execVars_but_pc, stepIdx, cur, summary, detectRuns,
                   halted, summaries, clsVars, sessVars, genVars>>

\* _execute_steps_with_error_detection returns: its locals are gone.
LeaveStepLoop ==
    /\ cur' = NoStep
    /\ attempt' = 0
    /\ attemptLog' = <<>>
    /\ actCalls' = 0
    /\ lastRaised' = FALSE
    /\ stepMode' = "none"
    /\ lastInstr' = NoInstruction
    /\ pc' = "closing"

\* After a failed step: _detect_errors_with_bool_schema asks its three
\* questions; on difficulties or a loop the summary is returned at once.
DetectErrors ==
    /\ pc = "detect"
    /\ \E hd \in BOOLEAN, loop \in BOOLEAN, cp \in BOOLEAN :
        LET d == DetectErrorsWithBoolSchema(hd, loop, cp)
        IN  /\ detectRuns' = detectRuns + 1
            /\ halted' = IF d.is_stuck_in_loop THEN stepIdx ELSE halted
            /\ IF StopsOnDetection(d)
               THEN /\ summary' = DetectionSummary(d, completed_steps, success_count,
                                                   failed_count)
                    /\ summaries' = summaries + 1
                    /\ LeaveStepLoop
               ELSE /\ pc' = "loop"
                    /\ UNCHANGED <<summary, summaries, cur, attempt, attemptLog,
                                   actCalls, lastRaised, stepMode,
                                   lastInstr>>
    /\ UNCHANGED <<coordVars, execVars_but_pc, stepIdx, completed_steps,
                   success_count, failed_count, escaped, firstFail, sent, clsVars, sessVars, genVars>>

\* The error detection of the loop's except branch: a loop breaks out of the
\* for statement, and the final summary follows.
ExceptionDetect ==
    /\ pc = "exc_detect"
    /\ \E hd \in BOOLEAN, loop \in BOOLEAN, cp \in BOOLEAN :
        LET d == DetectErrorsWithBoolSchema(hd, loop, cp)
        IN  /\ detectRuns' = detectRuns + 1
            /\ halted' = IF d.is_stuck_in_loop THEN stepIdx ELSE halted
            /\ IF BreaksOnLoop(d)
               THEN /\ summary' = FinalSummaryOf(completed_steps, success_count,
                                                 failed_count)
                    /\ summaries' = summaries + 1
                    /\ LeaveStepLoop
               ELSE /\ pc' = "loop"
                    /\ UNCHANGED <<summary, summaries, cur, attempt, attemptLog,
                                   actCalls, lastRaised, stepMode,
                                   lastInstr>>
    /\ UNCHANGED <<coordVars, execVars_but_pc, stepIdx, completed_steps,
                   success_count, failed_count, escaped, firstFail, sent, clsVars, sessVars, genVars>>

\* The for statement is exhausted: "Determine final status".
FinalSummary ==
    /\ pc = "loop"
    /\ stepIdx = planLen
    /\ summary' = FinalSummaryOf(completed_steps, success_count, failed_count)
    /\ summaries' = summaries + 1
    /\ LeaveStepLoop
    /\ UNCHANGED <<coordVars, execVars_but_pc, stepIdx, completed_steps,
                   success_count, failed_count, escaped, firstFail, detectRuns,
                   halted, sent, clsVars, sessVars, genVars>>

(***************************************************************************)
(* AutomationAgent.process_nova_act_result (the result classifier).        *)
(***************************************************************************)
improvable_errors == {"general_difficulties", "cannot_proceed", "timeout",
                      "element_not_found"}

non_improvable_errors == {"infinite_loop", "authentication_required",
                          "captcha_required", "payment_required",
                          "permission_denied"}

\* The suggestion texts, by origin, and whether the text holds one of the
\* improvement keywords try/retry/different/alternative/modify/adjust/change:
\* "Try refreshing the page ...", "... try a different approach",
\* "... please try again", "... and try again", "... try with simpler steps".
SuggestionTags == {"difficulties", "loop", "cannot_proceed", "interrupted",
                   "connection", "timeout", "plain", "keyword"}

SuggestionHasKeyword(tag) ==
    tag \in {"difficulties", "loop", "interrupted", "connection", "timeout", "keyword"}

\* As CanImprovePlan, with the suggestion keywords looked at first.
CanImprovePlanKeywordsFirst(error_type, suggestions) ==
    IF \E t \in suggestions : SuggestionHasKeyword(t) THEN TRUE
    ELSE error_type \in improvable_errors

\* _can_improve_plan
CanImprovePlan(error_type, suggestions) ==
    IF error_type \in non_improvable_errors THEN FALSE
    ELSE IF error_type \in improvable_errors THEN TRUE
    ELSE \E t \in suggestions : SuggestionHasKeyword(t)

Processed(action, status, human, tutorial, regen) ==
    [action |-> action, status |-> status, requires_human |-> human,
     tutorial |-> tutorial, regen |-> regen]

NoProcessed == Processed("none", "none", FALSE, FALSE, FALSE)

\* What task['validation_result'] is: the key is missing, None, a dictionary,
\* or a ValidationResult object (a dataclass, not a container).
ValidationKinds == {"missing", "null", "dict", "object"}

\* An automation task: context = its validation result holds improvements,
\* error_context and retry_context; instructions = its task_description ends
\* with the IMPROVEMENT INSTRUCTIONS; credentials = it holds extracted
\* credentials or a user context.
Task(validation, context, instructions, creds) ==
    [validation |-> validation, context |-> context,
     instructions |-> instructions, credentials |-> creds]

NoTask == Task("none", FALSE, FALSE, FALSE)

\* _create_improved_task: the improved task it returns and the original task
\* after the call.  original_task.copy() is shallow: a dictionary validation
\* result is shared and filled in place; `'improvements' not in
\* validation_result` raises for None and for a ValidationResult object, and
\* the except branch returns the original task.
CreateImprovedTask(task) ==
    IF task.validation \in {"null", "object"}
    THEN [improved |-> task, original |-> task]
    ELSE [improved |-> Task("dict", TRUE, TRUE, task.credentials),
          original |-> IF task.validation = "dict"
                       THEN [task EXCEPT !.context = TRUE]
                       ELSE task]

\* generate_execution_plan answers with an error for a task whose validation
\* result is missing or None (`if not validation_result`).
GeneratesPlan(task) == task.validation \in {"dict", "object"}

\* The credentials generate_execution_plan puts into the plan: those of the
\* task it is given.
PlanCredentials(task) == task.credentials

\* _improve_and_retry_plan: the plan generator is asked for a new plan
\* (generate_execution_plan) for the improved task.
ImproveAndRetryPlan(task) ==
    IF GeneratesPlan(CreateImprovedTask(task).improved)
    THEN Processed("improve_and_retry", "retry", FALSE, FALSE, TRUE)
    ELSE Processed("return_tutorial", "tutorial", TRUE, TRUE, TRUE)

\* `if can_improve and not is_stuck_in_loop`
ChoosesImprovement(error_type, stuck, suggestions) ==
    CanImprovePlan(error_type, suggestions) /\ ~stuck

\* process_nova_act_result
ProcessNovaActResult(res, task) ==
    IF res.status = "success" /\ ~res.requires_human
    THEN Processed("inform_user", "success", FALSE, FALSE, FALSE)
    ELSE IF res.status \in {"partial", "failed"} /\ res.error_detection.present
    THEN IF ChoosesImprovement(res.error_detection.error_type,
                               res.error_detection.is_stuck_in_loop, res.suggestions)
         THEN ImproveAndRetryPlan(task)
         ELSE Processed("return_tutorial", "tutorial", TRUE, TRUE, FALSE)
    ELSE Processed("return_tutorial", "tutorial", TRUE, TRUE, FALSE)

\* process_nova_act_result took the branch of _improve_and_retry_plan.
Improves(res) ==
    /\ ~(res.status = "success" /\ ~res.requires_human)
    /\ res.status \in {"partial", "failed"}
    /\ res.error_detection.present
    /\ ChoosesImprovement(res.error_detection.error_type,
                          res.error_detection.is_stuck_in_loop, res.suggestions)

\* The task process_nova_act_result hands to generate_execution_plan.
RegenerationRequest(res, task) ==
    IF Improves(res) THEN CreateImprovedTask(task).improved ELSE NoTask

\* The original_task argument after process_nova_act_result returned.
TaskAfterProcess(res, task) ==
    IF Improves(res) THEN CreateImprovedTask(task).original ELSE task

(***************************************************************************)
(* CoordinatorAgent.                                                       *)
(***************************************************************************)
Response(status, human, tutorial, improved) ==
    [status |-> status, requires_human |-> human, tutorial |-> tutorial,
     improvement_applied |-> improved]

\* The dictionary of `except Exception as e:` of _intelligent_process_request.
ErrorResponse == Response("error", TRUE, FALSE, FALSE)

\* _intelligent_process_request handles an exception raised in its body: the
\* whole body is inside try/except Exception, which returns the error
\* dictionary, so nothing is raised to _retry_with_backoff.
IntelligentProcessExcept(rate_limit) == [raised |-> FALSE, rate_limit |-> rate_limit]

\* _retry_with_backoff: what it does with the outcome of one call of func.
RetryWithBackoff(out, att) ==
    IF ~out.raised THEN "return"
    ELSE IF out.rate_limit /\ att < max_retries - 1 THEN "retry"
    ELSE "raise"

\* As CoordinatorBranch, retrying on every improve_and_retry.
CoordinatorBranchAnyRun(r, action) ==
    IF action = "improve_and_retry" THEN "execute_improved" ELSE "respond"

\* The branch _intelligent_process_request takes on the classifier's action:
\* only the first classification can lead to the execution of an improved plan.
CoordinatorBranch(r, action) ==
    IF r = 1 /\ action = "improve_and_retry" THEN "execute_improved" ELSE "respond"

\* The dictionaries _intelligent_process_request returns after Stage 3.
ResponseOf(r, p) ==
    IF r = 1
    THEN IF p.action = "return_tutorial"
         THEN Response("tutorial", TRUE, TRUE, FALSE)
         ELSE Response(p.status, p.requires_human, FALSE, FALSE)
    ELSE IF p.action = "inform_user" THEN Response("success", FALSE, FALSE, TRUE)
    ELSE IF p.action = "return_tutorial" THEN Response("tutorial", TRUE, TRUE, TRUE)
    ELSE Response("partial", TRUE, FALSE, TRUE)

\* The task of Stage 1: validation_result.__dict__, the extracted credentials
\* and the user context.
Stage1Task(creds) == Task("dict", FALSE, FALSE, creds)

\* The task rebuilt for Stage 3: task_description, target_website and the
\* ValidationResult object itself; no credentials, no user context.
Stage3Task(task) == Task("object", task.context, task.instructions, FALSE)

\* An exception in Steps 1-7 (intent detection, research, validation: calls
\* of the external reasoning service, which may answer with a rate limit).
CoordRaise ==
    /\ caller = "coordinator"
    /\ cpc = "prepare"
    /\ \E rate_limit \in BOOLEAN :
        LET w == RetryWithBackoff(IntelligentProcessExcept(rate_limit), wattempt)
        IN  IF w = "retry"
            THEN /\ wattempt' = wattempt + 1
                 /\ UNCHANGED <<cpc, response>>
            ELSE /\ response' = ErrorResponse
                 /\ cpc' = "done"
                 /\ UNCHANGED wattempt
    /\ UNCHANGED <<caller, run, execCount, regenCount, actions, automation_task,
                   genRequest, origCredentials, execVars, loopVars,
                   histVars, clsVars, sessVars, genVars>>

\* The returns before Stage 1: a casual request answered directly, or missing
\* information asked from the user.
EarlyReturn ==
    /\ caller = "coordinator"
    /\ cpc = "prepare"
    /\ \E st \in {"success", "missing_info"} :
        response' = Response(st, st = "missing_info", FALSE, FALSE)
    /\ cpc' = "done"
    /\ UNCHANGED <<caller, run, wattempt, execCount, regenCount, actions,
                   automation_task, genRequest, origCredentials, execVars,
                   loopVars, histVars, clsVars, sessVars, genVars>>

\* Stage 1 and the call of Stage 2: a plan was generated and is handed to
\* execute_execution_plan.  The coordinator runs on the event loop; a script
\* (a direct caller) calls the engine from a synchronous context.
StartExecution ==
    /\ cpc = "prepare"
    /\ \E n \in 0..MaxSteps, creds \in BOOLEAN,
          c \in (IF caller = "coordinator" THEN {"async"} ELSE {"sync"}) :
        /\ EngineStart(n, PlanCredentials(Stage1Task(creds)), c)
        /\ automation_task' = Stage1Task(creds)
        /\ origCredentials' = PlanCredentials(Stage1Task(creds))
    /\ execCount' = execCount + 1
    /\ cpc' = "execute"
    /\ UNCHANGED <<caller, run, wattempt, regenCount, actions, response, genRequest,
                   clsVars, sessVars, genVars>>

\* Stage 3 and what follows it: the result is classified; on the first
\* improve_and_retry the improved plan is executed (it is built from the
\* Stage-3 task, which carries no credentials), otherwise the request returns.
ProcessResult ==
    /\ caller = "coordinator"
    /\ cpc = "process"
    /\ LET task == IF run = 1 THEN Stage3Task(automation_task) ELSE automation_task
           p == ProcessNovaActResult(callerResult, task)
           req == RegenerationRequest(callerResult, task)
       IN  /\ actions' = Append(actions, p.action)
           /\ regenCount' = regenCount + (IF p.regen THEN 1 ELSE 0)
           /\ automation_task' = TaskAfterProcess(callerResult, task)
           /\ genRequest' = IF req = NoTask THEN genRequest ELSE req
           /\ IF CoordinatorBranch(run, p.action) = "execute_improved"
              THEN /\ \E n \in 0..MaxSteps :
                        EngineStart(n, PlanCredentials(req), "async")
                   /\ run' = run + 1
                   /\ execCount' = execCount + 1
                   /\ cpc' = "execute"
                   /\ UNCHANGED response
              ELSE /\ response' = ResponseOf(run, p)
                   /\ cpc' = "done"
                   /\ UNCHANGED <<run, execCount, execVars, loopVars, histVars>>
    /\ UNCHANGED <<caller, wattempt, origCredentials, clsVars, sessVars, genVars>>

(***************************************************************************)
(* The specification of a request (or of a direct call of the engine).     *)
(***************************************************************************)
EngineIdle ==
    /\ ctx = "sync"
    /\ planLen = 0
    /\ credentials = FALSE
    /\ pc = "idle"
    /\ browser = "unopened"
    /\ nova = "unopened"
    /\ openCount = 0
    /\ overran = FALSE
    /\ workerResult = NoResult
    /\ callerResult = NoResult
    /\ returnCount = 0
    /\ stepIdx = 0
    /\ cur = NoStep
    /\ completed_steps = <<>>
    /\ success_count = 0
    /\ failed_count = 0
    /\ summary = NoResult
    /\ attempt = 0
    /\ attemptLog = <<>>
    /\ escaped = FALSE
    /\ lastRaised = FALSE
    /\ actCalls = 0
    /\ firstFail = FALSE
    /\ detectRuns = 0
    /\ halted = 0
    /\ summaries = 0
    /\ sent = {}
    /\ stepMode = "none"
    /\ lastInstr = NoInstruction

\* process_nova_act_result has not returned.
ClsIdle ==
    /\ clsOut = NoProcessed
    /\ clsReq = NoTask
    /\ clsTask = NoTask

\* generate_execution_plan is not running.
GenIdle ==
    /\ gpc = "idle"
    /\ genIn = <<>>
    /\ genData = <<>>
    /\ genPlan = <<>>

\* No plan execution has been given a session id yet.
SessIdle ==
    /\ clock = 0
    /\ sessions = <<>>

CoordIdle ==
    /\ run = 1
    /\ wattempt = 0
    /\ execCount = 0
    /\ regenCount = 0
    /\ actions = <<>>
    /\ response = NoResponse
    /\ automation_task = NoTask
    /\ genRequest = NoTask
    /\ origCredentials = FALSE

Init ==
    /\ caller \in {"coordinator", "direct"}
    /\ cpc = "prepare"
    /\ CoordIdle
    /\ EngineIdle
    /\ clsIn = [res |-> NoResult, task |-> NoTask]
    /\ ClsIdle
    /\ GenIdle
    /\ SessIdle

Next ==
    \/ CoordRaise
    \/ EarlyReturn
    \/ StartExecution
    \/ BrowserOpen
    \/ NovaStart
    \/ NextStep
    \/ Attempt
    \/ DetectErrors
    \/ ExceptionDetect
    \/ FinalSummary
    \/ CloseSession
    \/ Interrupt
    \/ ClockExceedsTimeout
    \/ Return
    \/ ProcessResult

Spec == Init /\ [][Next]_vars

(***************************************************************************)
(* A direct call of the engine with a plan of three or more micro-steps,   *)
(* neither interrupted nor overrunning.                                    *)
(***************************************************************************)
\* The micro-steps of the long plans: click steps with retry budget 0 or 2,
\* and the step whose instruction is null.
LongPlanSteps ==
    {s \in Steps : /\ s.instr = "text" => s.nova_act_type = "click"
                   /\ s.retry_count \in {0, 2}
                   /\ ~s.credMatch}

\* execute_execution_plan called by a script with a plan without credentials.
StartLongExecution ==
    /\ caller = "direct"
    /\ cpc = "prepare"
    /\ \E n \in 3..LongSteps : EngineStart(n, FALSE, "sync")
    /\ execCount' = execCount + 1
    /\ cpc' = "execute"
    /\ UNCHANGED <<caller, run, wattempt, regenCount, actions, response,
                   automation_task, genRequest, origCredentials, clsVars, sessVars, genVars>>

NextLongStep == NextStepFrom(LongPlanSteps)

InitLong ==
    /\ caller = "direct"
    /\ cpc = "prepare"
    /\ CoordIdle
    /\ EngineIdle
    /\ clsIn = [res |-> NoResult, task |-> NoTask]
    /\ ClsIdle
    /\ GenIdle
    /\ SessIdle

NextLong ==
    \/ StartLongExecution
    \/ BrowserOpen
    \/ NovaStart
    \/ NextLongStep
    \/ Attempt
    \/ DetectErrors
    \/ ExceptionDetect
    \/ FinalSummary
    \/ CloseSession
    \/ Return

SpecLong == InitLong /\ [][NextLong]_vars

(***************************************************************************)
(* process_nova_act_result over its inputs.                                *)
(***************************************************************************)
ErrorTypes == improvable_errors \cup non_improvable_errors
                  \cup {"None", "unknown", "detection_error"}

ResultStatuses == {"success", "partial", "failed", "error", "interrupted"}

ClassifierInputs ==
    {[res |-> [status |-> st, requires_human |-> rh,
               error_detection |-> [present |-> pr, has_difficulties |-> FALSE,
                                    is_stuck_in_loop |-> lp, can_proceed |-> TRUE,
                                    error_type |-> et, suggestions |-> {}],
               suggestions |-> sg, completed_steps |-> <<>>, success_count |-> 0,
               failed_count |-> 0],
      task |-> Task(vk, FALSE, FALSE, FALSE)] :
        st \in ResultStatuses, rh \in BOOLEAN, pr \in BOOLEAN, lp \in BOOLEAN,
        et \in ErrorTypes, sg \in {{}, {"plain"}, {"keyword"}, {"plain", "keyword"}},
        vk \in ValidationKinds}

InitClassify ==
    /\ caller = "classifier"
    /\ cpc = "done"
    /\ CoordIdle
    /\ EngineIdle
    /\ clsIn \in ClassifierInputs
    /\ ClsIdle
    /\ GenIdle
    /\ SessIdle

Classify ==
    /\ caller = "classifier"
    /\ clsOut = NoProcessed
    /\ clsOut' = ProcessNovaActResult(clsIn.res, clsIn.task)
    /\ clsReq' = RegenerationRequest(clsIn.res, clsIn.task)
    /\ clsTask' = TaskAfterProcess(clsIn.res, clsIn.task)
    /\ UNCHANGED <<coordVars, execVars, loopVars, histVars, clsIn, sessVars, genVars>>

NextClassify == Classify

SpecClassify == InitClassify /\ [][NextClassify]_vars

(***************************************************************************)
(* Session identifiers of plan executions that may overlap in time (the    *)
(* server runs settings.workers processes, scripts call the engine too).   *)
(***************************************************************************)
NoSession == [state |-> "none", source |-> "none", session_id |-> <<>>]

\* strftime('%Y%m%d_%H%M%S') of utcnow() and int(time.time()): the clock value
\* cut to whole seconds.
WholeSeconds(t) == t \div TicksPerSecond

\* f"plan_{datetime.utcnow().strftime('%Y%m%d_%H%M%S')}"
PlanSessionId(t) == <<"plan", WholeSeconds(t)>>

\* f"session_{int(time.time())}"
EngineSessionId(t) == <<"session", WholeSeconds(t)>>

\* The wall clock advances.
Tick ==
    /\ caller = "sessions"
    /\ clock < MaxClock
    /\ clock' = clock + 1
    /\ UNCHANGED <<coordVars, execVars, loopVars, histVars, clsVars, sessions,
                   genVars>>

\* _create_automation_execution_plan: session_id is the one found in the
\* generator's data ("given", taken here as distinct per plan) or is
\* generated from the clock ("plan"); a plan dictionary written by a script
\* may have no session_id at all ("engine").
CreatePlan(i) ==
    /\ caller = "sessions"
    /\ sessions[i].state = "none"
    /\ \E src \in {"given", "plan", "engine"} :
        sessions' = [sessions EXCEPT ![i] =
            [state |-> "planned", source |-> src,
             session_id |-> IF src = "given" THEN <<"given", i>>
                            ELSE IF src = "plan" THEN PlanSessionId(clock)
                            ELSE <<>>]]
    /\ UNCHANGED <<coordVars, execVars, loopVars, histVars, clsVars, clock,
                   genVars>>

\* _execute_nova_act_sync starts: execution_plan.get('session_id',
\* f"session_{int(time.time())}").
BeginExecution(i) ==
    /\ caller = "sessions"
    /\ sessions[i].state = "planned"
    /\ sessions' = [sessions EXCEPT ![i] =
            [state |-> "running", source |-> @.source,
             session_id |-> IF @.source = "engine" THEN EngineSessionId(clock)
                            ELSE @.session_id]]
    /\ UNCHANGED <<coordVars, execVars, loopVars, histVars, clsVars, clock,
                   genVars>>

\* execute_execution_plan returns.
EndExecution(i) ==
    /\ caller = "sessions"
    /\ sessions[i].state = "running"
    /\ sessions' = [sessions EXCEPT ![i].state = "ended"]
    /\ UNCHANGED <<coordVars, execVars, loopVars, histVars, clsVars, clock,
                   genVars>>

InitSessions ==
    /\ caller = "sessions"
    /\ cpc = "done"
    /\ CoordIdle
    /\ EngineIdle
    /\ clsIn = [res |-> NoResult, task |-> NoTask]
    /\ ClsIdle
    /\ GenIdle
    /\ clock = 0
    /\ sessions = [i \in 1..MaxSessions |-> NoSession]

NextSessions ==
    \/ Tick
    \/ \E i \in 1..MaxSessions : CreatePlan(i)
    \/ \E i \in 1..MaxSessions : BeginExecution(i)
    \/ \E i \in 1..MaxSessions : EndExecution(i)

SpecSessions == InitSessions /\ [][NextSessions]_vars

(***************************************************************************)
(* generate_execution_plan from the parsed reply of the generator to the   *)
(* AutomationExecutionPlan: _validate_and_filter_payment_steps and         *)
(* _create_automation_execution_plan over the micro_steps of the reply.    *)
(***************************************************************************)
MaxGenSteps == 3

\* A JSON null (Python None).
Null == "<null>"

\* step.get(key, default); step.missing holds the keys the generator left
\* out of the step.
DictGet(step, key, default) == IF key \in step.missing THEN default ELSE step[key]

\* str.lower() on the texts of the model.
Lower(s) ==
    CASE s = "Click Search" -> "click search"
      [] s = "Proceed to PAYMENT" -> "proceed to payment"
      [] s = "Pay" -> "pay"
      [] OTHER -> s

\* any(keyword in instruction for keyword in payment_keywords), on the
\* lowered texts of the model: "pay" and "payment" are keywords.
ContainsPaymentKeyword(instruction) ==
    instruction \in {"proceed to payment", "settle the summons", "pay"}

\* nova_act_type in ['pay', 'payment', 'transaction']
IsPaymentAction(nova_act_type) == nova_act_type \in {"pay", "payment", "transaction"}

\* The test of the filter loop, for a step whose two fields are strings.
IsPaymentStep(step) ==
    \/ ContainsPaymentKeyword(Lower(DictGet(step, "instruction", "")))
    \/ IsPaymentAction(Lower(DictGet(step, "nova_act_type", "")))

\* .lower() on None raises AttributeError inside the filter's try block.
LowerRaises(step) ==
    \/ DictGet(step, "instruction", "") = Null
    \/ DictGet(step, "nova_act_type", "") = Null

\* micro_steps of the dictionary _validate_and_filter_payment_steps returns:
\* the filtered list, or, when the loop raised, the list as it came in
\* (`except Exception: return execution_plan_data`, not yet updated).
ValidateAndFilterPaymentSteps(micro_steps) ==
    IF \E i \in 1..Len(micro_steps) : LowerRaises(micro_steps[i])
    THEN micro_steps
    ELSE SelectSeq(micro_steps, LAMBDA step : ~IsPaymentStep(step))

\* The EnhancedMicroStep list of _create_automation_execution_plan: each
\* step keeps the step_number of its dictionary, 1 when the key is missing.
CreateAutomationExecutionPlan(micro_steps) ==
    [i \in 1..Len(micro_steps) |->
        [step_number |-> DictGet(micro_steps[i], "step_number", 1),
         instruction |-> DictGet(micro_steps[i], "instruction", ""),
         nova_act_type |-> DictGet(micro_steps[i], "nova_act_type", "navigate")]]

\* The micro_steps a reply of the generator can hold: numbered 1..N in order,
\* a step possibly without its step_number key or with a null instruction.
GeneratedStep(i) ==
    [missing : {{}, {"step_number"}},
     step_number : {i},
     instruction : {"Click Search", "Proceed to PAYMENT", "settle the summons", Null},
     nova_act_type : {"click", "Pay"}]

GeneratedPlans ==
    UNION {{p \in [1..n -> UNION {GeneratedStep(i) : i \in 1..n}] :
               \A i \in 1..n : p[i] \in GeneratedStep(i)} : n \in 0..MaxGenSteps}

\* execution_plan_data = self._validate_and_filter_payment_steps(...)
FilterPaymentSteps ==
    /\ gpc = "parsed"
    /\ genData' = ValidateAndFilterPaymentSteps(genIn)
    /\ gpc' = "filtered"
    /\ UNCHANGED <<coordVars, execVars, loopVars, histVars, clsVars, sessVars,
                   genIn, genPlan>>

\* return self._create_automation_execution_plan(execution_plan_data, ...)
BuildExecutionPlan ==
    /\ gpc = "filtered"
    /\ genPlan' = CreateAutomationExecutionPlan(genData)
    /\ gpc' = "planned"
    /\ UNCHANGED <<coordVars, execVars, loopVars, histVars, clsVars, sessVars,
                   genIn, genData>>

InitPlan ==
    /\ caller = "generator"
    /\ cpc = "done"
    /\ CoordIdle
    /\ EngineIdle
    /\ clsIn = [res |-> NoResult, task |-> NoTask]
    /\ ClsIdle
    /\ SessIdle
    /\ gpc = "parsed"
    /\ genIn \in GeneratedPlans
    /\ genData = <<>>
    /\ genPlan = <<>>

NextPlan ==
    \/ FilterPaymentSteps
    \/ BuildExecutionPlan

SpecPlan == InitPlan /\ [][NextPlan]_vars

(***************************************************************************)
(* Properties.                                                             *)
(***************************************************************************)
LastOf(seq) == seq[Len(seq)]

\* The step loop has returned its summary.
LoopReturned == summary # NoResult

\* C1: when the first attempt of every step of a plan of N >= 1 steps is
\* classified successful, the summary of the step loop has status success,
\* exactly N outcomes in plan order, all successful, success_count = N,
\* failed_count = 0, and the error detection never ran.
C1_AllFirstAttemptsSucceed ==
    (LoopReturned /\ planLen >= 1 /\ ~firstFail) =>
        /\ summary.status = "success"
        /\ ~summary.requires_human
        /\ Len(summary.completed_steps) = planLen
        /\ \A i \in 1..planLen :
              /\ summary.completed_steps[i].step = i
              /\ summary.completed_steps[i].status = "success"
        /\ summary.success_count = planLen
        /\ summary.failed_count = 0
        /\ detectRuns = 0

C1_Witness ==
    /\ LoopReturned
    /\ planLen = MaxSteps
    /\ ~firstFail
    /\ pc = "finished"
    /\ workerResult.status = "success"

\* C2: a request executes a plan at most twice (the original plan and at most
\* one improved plan), and once the second execution has been classified the
\* request has returned; the retry wrapper never starts the request again.
C2_AtMostOneReplan ==
    /\ execCount <= 2
    /\ run <= 2
    /\ wattempt = 0
    /\ Len(actions) <= 2
    /\ Len(actions) = 2 => (cpc = "done" /\ execCount = 2)
    /\ (cpc = "done" /\ caller = "coordinator") => response # NoResponse

C2_Witness ==
    /\ cpc = "done"
    /\ execCount = 2
    /\ Len(actions) = 2
    /\ callerResult.status = "failed"
    /\ response.requires_human

\* C3: the classifier never answers improve_and_retry for the failure of the
\* improved plan, and no second plan regeneration is requested.
C3_NoSecondImprove ==
    /\ Len(actions) = 2 => actions[2] # "improve_and_retry"
    /\ regenCount <= 1

\* C4: for a failed run whose error type is one of the non-improvable ones,
\* or whose error detection reports is_stuck_in_loop, process_nova_act_result
\* returns return_tutorial with requires_human, never improve_and_retry,
\* whatever the suggestions are.
C4_NonImprovableNeverRetried ==
    (/\ clsOut # NoProcessed
     /\ clsIn.res.status # "success"
     /\ \/ clsIn.res.error_detection.error_type \in non_improvable_errors
        \/ clsIn.res.error_detection.is_stuck_in_loop) =>
        /\ clsOut.action = "return_tutorial"
        /\ clsOut.requires_human
        /\ clsOut.tutorial

C4_Witness ==
    /\ clsOut.action = "return_tutorial"
    /\ clsIn.res.status = "failed"
    /\ clsIn.res.error_detection.present
    /\ clsIn.res.error_detection.error_type = "captcha_required"
    /\ ~clsIn.res.error_detection.is_stuck_in_loop
    /\ "keyword" \in clsIn.res.suggestions
    /\ clsIn.task.validation = "object"

\* C5: once the error detection after a failed step reports a loop, the step
\* loop has returned (exactly one summary was built), the step pointer stays
\* on that step and no later step was sent to the actuator.
C5_BlackholeHalts ==
    halted > 0 =>
        /\ pc \in {"closing", "finished"}
        /\ stepIdx = halted
        /\ summaries = 1
        /\ \A i \in sent : i <= halted

C5_Witness ==
    /\ halted > 0
    /\ halted < planLen
    /\ halted \in sent
    /\ returnCount = 1
    /\ callerResult.error_detection.is_stuck_in_loop

\* C6: the actuator session is started at most once per execution, before
\* any step, inside the browser session; when the worker has ended and when
\* execute_execution_plan has returned, neither session is open.
C6_SessionClosed ==
    /\ openCount <= 1
    /\ nova = "open" => browser = "open"
    /\ pc \in {"loop", "attempt", "detect", "exc_detect"} =>
          (nova = "open" /\ openCount = 1)
    /\ stepIdx > 0 => openCount = 1
    /\ pc = "finished" => (nova # "open" /\ browser # "open")
    /\ returnCount = 1 => (nova # "open" /\ browser # "open")

C6_Witness ==
    /\ returnCount = 1
    /\ nova = "closed"
    /\ browser = "closed"
    /\ callerResult.status = "interrupted"
    /\ stepIdx > 0

\* C7: no exception leaves _execute_step_with_retry: whatever the actuator
\* returns or raises, the step ends with one outcome of status success or
\* failed, also when its final attempt raised.
C7_StepRunnerNeverRaises ==
    /\ ~escaped
    /\ \A i \in 1..Len(completed_steps) :
          completed_steps[i].status \in {"success", "failed"}
    /\ (pc = "detect" /\ lastRaised) =>
          LastOf(completed_steps) = StepResult(stepIdx, "failed", cur.retry_count)

C7_Witness ==
    /\ pc = "detect"
    /\ lastRaised
    /\ cur.retry_count = MaxRetry
    /\ LastOf(completed_steps).status = "failed"

\* The step runner has just returned success for the current step.
StepSucceeded ==
    /\ pc = "loop"
    /\ attemptLog # <<>>
    /\ LastOf(attemptLog)

\* C8 as stated: the outcome of a step that succeeds at attempt index
\* `attempt` carries the count attempt + 1 (1 for an immediate success).
C8_CountIsAttemptPlusOne ==
    StepSucceeded =>
        /\ LastOf(completed_steps).status = "success"
        /\ LastOf(completed_steps).retry_count = attempt + 1

\* C8 as amended: the step runner returns at the first attempt classified
\* successful (no attempt follows a successful one), and the outcome has
\* status success with retry_count = attempt, the 0-based index of the
\* successful attempt; a one-step plan that succeeds immediately yields
\* status success with the single outcome of retry_count 0.
C8_ReturnsAtFirstSuccess ==
    /\ \A i \in 1..(Len(attemptLog) - 1) : ~attemptLog[i]
    /\ StepSucceeded =>
          /\ Len(attemptLog) = attempt + 1
          /\ LastOf(completed_steps) = StepResult(stepIdx, "success", attempt)
          /\ Len(completed_steps) = stepIdx
    /\ (LoopReturned /\ planLen = 1 /\ ~firstFail) =>
          /\ summary.status = "success"
          /\ summary.completed_steps = <<StepResult(1, "success", 0)>>

C8_Witness ==
    /\ StepSucceeded
    /\ attempt = MaxRetry
    /\ actCalls >= attempt + 1

\* A step of retry budget 2 whose first two attempts failed and whose third
\* attempt is classified successful.
ThirdAttemptSucceeds ==
    /\ pc \in {"loop", "detect"}
    /\ cur.retry_count = 2
    /\ attemptLog = <<FALSE, FALSE, TRUE>>

\* C9 as stated: with retry budget 2, two failed attempts and a third that
\* succeeds, the step is reported failed.
C9_BudgetTwoReportsFailed ==
    ThirdAttemptSucceeds => LastOf(completed_steps).status = "failed"

\* C9 as amended: with retry budget 2 the third attempt is made, and when it
\* succeeds the step is reported success with retry_count 2; a step is
\* reported failed only after retry_count + 1 attempts that all failed.
C9_BudgetTwoAllowsThreeAttempts ==
    /\ ThirdAttemptSucceeds =>
          LastOf(completed_steps) = StepResult(stepIdx, "success", 2)
    /\ pc = "detect" =>
          /\ Len(attemptLog) = cur.retry_count + 1
          /\ \A i \in 1..Len(attemptLog) : ~attemptLog[i]
          /\ LastOf(completed_steps).status = "failed"

C9_Witness == ThirdAttemptSucceeds

\* C10: whenever the execution took longer than the timeout, what
\* execute_execution_plan returns is a failure with requires_human, in the
\* event-loop branch and in the synchronous branch.
C10_TimeoutBoundsExecution ==
    (returnCount = 1 /\ overran) =>
        /\ callerResult.requires_human
        /\ callerResult.status \in {"failed", "error"}

\* C11: every request that executed a plan and ends without success returns
\* a recovery tutorial to the caller.
C11_NonSuccessHasTutorial ==
    (/\ caller = "coordinator"
     /\ cpc = "done"
     /\ execCount >= 1
     /\ response.status # "success") => response.tutorial

\* C12: in a plan of 3 steps whose step 1 succeeded and whose step 2 (retry
\* budget 2) failed after its three attempts, the run halts at step 2 with
\* status blackhole_detected and step 3 is never sent to the actuator.
C12_ThreeFailuresHaltAtStepTwo ==
    (/\ planLen = 3
     /\ Len(completed_steps) >= 2
     /\ completed_steps[1].status = "success"
     /\ completed_steps[2] = StepResult(2, "failed", 2)) =>
        /\ stepIdx = 2
        /\ 3 \notin sent
        /\ LoopReturned => summary.status = "blackhole_detected"

\* C13: once three steps of an execution have failed, the run halts: no
\* further step is attempted.
C13_NoStepAfterThreeFailures ==
    failed_count >= 3 => pc # "attempt"

\* The statuses of the engine's result contract.
ContractStatuses == {"success", "partial", "failed", "blackhole_detected",
                     "human_intervention_required"}

\* C14: the status of every result execute_execution_plan returns, on every
\* path, is one of the statuses of the result contract.
C14_StatusInContract ==
    returnCount = 1 => callerResult.status \in ContractStatuses

\* C15: when the step loop comes upon a malformed step (one whose instruction
\* is missing), no step instruction of that plan has been sent to the
\* actuator: the plan was rejected before its execution began.
C15_MalformedPlanFailsFast ==
    (pc = "exc_detect" /\ cur.instr = "null") => sent = {}

\* C19: the result execute_execution_plan returns lists every step outcome
\* recorded during that execution.
C19_ResultListsOutcomes ==
    returnCount = 1 => callerResult.completed_steps = completed_steps

\* C20: the main instruction of a step is sent to the actuator at most
\* retry_count + 1 times.
C20_AtMostBudgetPlusOneCalls ==
    cur # NoStep => actCalls <= cur.retry_count + 1

\* C16: a step all of whose attempts raise and a step all of whose attempts
\* return failure text make the same number of actuator calls, one per
\* attempt of range(retry_count + 1), and both end with status failed.
C16_RaiseSameAsText ==
    (pc = "detect" /\ stepMode \in {"raise", "text"}) =>
        /\ actCalls = cur.retry_count + 1
        /\ LastOf(completed_steps).status = "failed"

\* C17: steps run strictly one after the other in a single worker: a worker
\* is active only while its execute_execution_plan call has not returned (so
\* none is left running after a timeout or when the improved plan's execution
\* starts), and a step is started only when every earlier step has its
\* outcome recorded.
C17_OneWorkerSequentialSteps ==
    /\ cpc # "execute" => pc \in {"idle", "finished"}
    /\ pc = "attempt" =>
          /\ Len(completed_steps) = stepIdx - 1
          /\ sent \subseteq 1..stepIdx
    /\ pc \in {"detect", "exc_detect"} => Len(completed_steps) = stepIdx
    /\ \A i \in 1..Len(completed_steps) : completed_steps[i].step = i

C17_Witness ==
    /\ run = 2
    /\ overran
    /\ pc = "attempt"
    /\ stepIdx = MaxSteps
    /\ sent = 1..MaxSteps

\* C18: any two plan executions in progress at the same time whose session
\* ids were generated have different session ids.
C18_ConcurrentSessionIdsDiffer ==
    \A i \in DOMAIN sessions : \A j \in DOMAIN sessions :
        (/\ i # j
         /\ sessions[i].state = "running"
         /\ sessions[j].state = "running"
         /\ sessions[i].source # "given"
         /\ sessions[j].source # "given") =>
            sessions[i].session_id # sessions[j].session_id

\* C21: the task handed to the plan generator for the new plan carries the
\* failed run's error context and suggestions (in its validation result) and
\* the improvement instructions (in its task description).
C21_RegenerationCarriesErrorContext ==
    genRequest # NoTask =>
        /\ genRequest.context
        /\ genRequest.instructions

\* C29: process_nova_act_result, through _create_improved_task, leaves its
\* original_task argument exactly as it was before the call.
C29_OriginalTaskUnchanged ==
    clsOut # NoProcessed => clsTask = clsIn.task

\* C30: the improved plan is executed with the same credentials as the
\* original plan.
C30_RetryKeepsCredentials ==
    run = 2 => credentials = origCredentials

\* C22: an attempt of a navigate step whose actuator call returned without
\* raising is classified successful, whatever the result text.
C22_NavigateSucceedsOnReturn ==
    (/\ cur.nova_act_type = "navigate"
     /\ attemptLog # <<>>
     /\ ~lastRaised) => LastOf(attemptLog)

\* C23: the instruction sent on a retry (attempt index >= 1) is the step's
\* instruction with a recovery or retry suffix appended.
C23_RetrySendsMutatedInstruction ==
    Len(attemptLog) >= 2 => lastInstr.suffix # "none"

\* C27: a result with status success and requires_human = false is returned
\* only for a plan of at least one step, all of whose steps have an outcome
\* of status success.
C27_SuccessNeedsSteps ==
    (/\ returnCount = 1
     /\ callerResult.status = "success"
     /\ ~callerResult.requires_human) =>
        /\ planLen >= 1
        /\ Len(callerResult.completed_steps) = planLen
        /\ \A i \in 1..planLen : callerResult.completed_steps[i].status = "success"

\* The outcomes in a list of step outcomes that have the given status.
CountStatus(seq, status) == Cardinality({i \in 1..Len(seq) : seq[i].status = status})

\* The outcomes list holds one entry per step, in plan order, and the two
\* counters add up to its length.
OutcomesConsistent(done, sc, fc) ==
    /\ Len(done) <= planLen
    /\ \A i \in 1..Len(done) : done[i].step = i
    /\ sc = CountStatus(done, "success")
    /\ fc = CountStatus(done, "failed")
    /\ sc + fc = Len(done)

\* C26: the step pointer never exceeds the plan length and only moves forward
\* within an execution; once a step's final outcome is recorded the outcomes
\* list has exactly one entry per step taken so far, in plan order, with
\* success_count + failed_count equal to its length; and the summary the
\* loop returns, on each of its exits, carries that same list and counters.
C26_PointerMatchesOutcomes ==
    /\ [](/\ stepIdx <= planLen
          /\ OutcomesConsistent(completed_steps, success_count, failed_count)
          /\ pc = "attempt" => Len(completed_steps) = stepIdx - 1
          /\ pc \in {"loop", "detect", "exc_detect", "closing"} =>
                Len(completed_steps) = stepIdx
          /\ LoopReturned =>
                /\ summary.completed_steps = completed_steps
                /\ OutcomesConsistent(summary.completed_steps,
                                      summary.success_count, summary.failed_count))
    /\ [][stepIdx' >= stepIdx \/ (stepIdx' = 0 /\ pc' = "open_browser")]_vars

C26_Witness ==
    /\ LoopReturned
    /\ summary.error_detection.present
    /\ summary.success_count = 1
    /\ summary.failed_count = 1
    /\ stepIdx = MaxSteps

\* C28: once execute_execution_plan has returned, on the timeout path of the
\* worker-thread branch as on every other, the worker of that execution has
\* finished: no step is being attempted, the actuator session is not open,
\* and nothing of the engine moves until the next execution starts.
C28_ReturnMeansWorkerFinished ==
    /\ [](returnCount = 1 =>
            /\ pc = "finished"
            /\ attempt = 0
            /\ cur = NoStep
            /\ nova # "open"
            /\ browser # "open")
    /\ [][(returnCount = 1 /\ returnCount' = 1) =>
            UNCHANGED <<pc, nova, browser, sent, actCalls, completed_steps,
                        workerResult>>]_vars

C28_Witness ==
    /\ returnCount = 1
    /\ ctx = "async"
    /\ overran
    /\ callerResult = TimeoutResult
    /\ workerResult # TimeoutResult
    /\ nova = "closed"
    /\ sent = 1..MaxSteps

\* The step numbers of a plan's micro-steps.
StepNumbers(micro_steps) == {micro_steps[i].step_number : i \in 1..Len(micro_steps)}

\* C24: the plan the generator hands over has step indices exactly 1..N for
\* its N micro-steps, also after payment steps were filtered out and when a
\* generated step has no step number.
C24_StepIndicesDense ==
    gpc = "planned" => StepNumbers(genPlan) = 1..Len(genPlan)

\* C25: the micro-steps _validate_and_filter_payment_steps returns are the
\* steps of its input that are not payment-related (no payment keyword in
\* the lowered instruction, no payment action type), in their input order.
C25_FilterRemovesExactlyPaymentSteps ==
    gpc \in {"filtered", "planned"} =>
        genData = SelectSeq(genIn, LAMBDA step : ~IsPaymentStep(step))

====
